---- MODULE Spec2Model ----
(***************************************************************************)
(* Model of the test-build-cache repository:                               *)
(*   - the cache test script (src/unnamed/part_000, scripts/test-cache.sh) *)
(*   - scripts/build-scenarios.sh                                          *)
(*   - the express application (src/src/index.ts, src/unnamed/part_001)    *)
(*   - the layer structure of the Dockerfile                               *)
(* Each program has its own specification; the variables of the other      *)
(* programs stay at their initial values.                                  *)
(***************************************************************************)
EXTENDS Integers, Sequences, FiniteSets, TLC

VARIABLES
    \* ---- cache test script ----
    tpc,                \* position in the cache test script
    now,                \* the wall clock read by `date +%s`, in seconds
    start_time, end_time, duration,   \* globals assigned by time_build
    status,             \* $? of the last command
    clean_time, cached_time, source_change_time, deps_change_time, buildkit_time,
    cache_efficiency,
    package_json,       \* content of package.json
    backup,             \* content of package.json.backup, NoFile when absent
    routes_appended,    \* number of comment lines appended to src/routes.ts
    tbuildx,            \* whether `docker buildx version` succeeds
    builds,             \* docker build invocations issued by the script
    out,                \* lines printed
    exit_code           \* exit status of the script, Running while it runs

tvars == <<tpc, now, start_time, end_time, duration, status, clean_time,
           cached_time, source_change_time, deps_change_time, buildkit_time,
           cache_efficiency, package_json, backup, routes_appended, tbuildx,
           builds, out, exit_code>>

VARIABLES
    \* ---- build-scenarios.sh ----
    argv,               \* the script's arguments
    sbuildx,            \* whether `docker buildx version` succeeds
    spc,                \* position: "case", "call", "exited"
    callee,             \* the function being called
    ra,                 \* position in run_all, 0 outside run_all
    called,             \* the functions called so far, in order
    cmds,               \* external commands issued, in order, each with the
                        \* function that issued it
    sout,               \* lines printed
    sexit               \* exit status of the script, Running while it runs

svars == <<argv, sbuildx, spc, callee, ra, called, cmds, sout, sexit>>

VARIABLES
    \* ---- express application ----
    clock,              \* Date.now(), in milliseconds
    reqs,               \* requests received, in order; the index is the id
    resps,              \* resps[id]: the responses sent for request id
    timers              \* pending setTimeout callbacks

hvars == <<clock, reqs, resps, timers>>

VARIABLES
    \* ---- image build ----
    dirty,              \* build-context paths edited since the last build
    cached,             \* layers (Dockerfile lines) held by the layer cache
    rebuilt,            \* layers executed by the last build
    last                \* what the last build started from

lvars == <<dirty, cached, rebuilt, last>>

vars == <<tvars, svars, hvars, lvars>>

\* a step of one program leaves the other programs alone
TFrame == UNCHANGED <<svars, hvars, lvars>>
SFrame == UNCHANGED <<tvars, hvars, lvars>>
HFrame == UNCHANGED <<tvars, svars, lvars>>
LFrame == UNCHANGED <<tvars, svars, hvars>>

----------------------------------------------------------------------------
\* Bounds

\* build durations are k * 256 + r seconds, k in 0..MaxWraps
MaxWraps == 1

\* ---- shell semantics shared by both scripts ----

\* an exit status is eight bits wide
StatusModulus == 256

\* a shell variable that has not been assigned yet
Unset == 0 - 1

\* a script that has not exited yet
Running == 0 - 1

NoFile == "absent"

\* $(( a / b )) truncates toward zero
TruncDiv(a, b) ==
    IF (a >= 0) = (b > 0) THEN a \div b
    ELSE IF a % b = 0 THEN a \div b ELSE (a \div b) + 1

----------------------------------------------------------------------------
\* The cache test script

IMAGE_NAME == "test-build-cache"

OriginalPackageJson == "original"
ModifiedPackageJson == "original+comment"

\* the build durations and docker exit statuses the environment can produce
Durations == { k * StatusModulus + r : k \in 0..MaxWraps, r \in {0, 1, 255} }
DockerRc == {0, 1}

\* what `return n` leaves in $?
ReturnStatus(n) == n % StatusModulus

Line(tag, val) == [line |-> tag, val |-> val]

\* the lines time_build prints; the last one only when docker build succeeded
time_build_out(build_type, extra_args, d, rc) ==
    <<Line("Testing", build_type), Line("Command", extra_args)>>
    \o (IF rc = 0 THEN <<Line("completed", d)>> ELSE <<>>)

\* time_build: under set -e a failing docker build ends the script inside the
\* function; otherwise the function returns the duration as its status
time_build(build_type, extra_args, d, rc) ==
    /\ start_time' = now
    /\ builds' = Append(builds, [type |-> build_type, args |-> extra_args,
                                 rc |-> rc, took |-> d])
    /\ now' = now + d
    /\ IF rc # 0
       THEN /\ status' = rc
            /\ UNCHANGED <<end_time, duration>>
       ELSE /\ end_time' = now'
            /\ duration' = end_time' - start_time'
            /\ status' = ReturnStatus(duration')

\* set -e after a simple command: a non-zero status ends the script with it
ErrExit(next) ==
    IF status' # 0
    THEN tpc' = "exited" /\ exit_code' = status'
    ELSE tpc' = next /\ exit_code' = exit_code

\* the script has not been started
TIdle ==
    /\ tpc = "idle"
    /\ now = 0
    /\ start_time = Unset /\ end_time = Unset /\ duration = Unset
    /\ status = 0
    /\ clean_time = Unset /\ cached_time = Unset
    /\ source_change_time = Unset /\ deps_change_time = Unset
    /\ buildkit_time = Unset
    /\ cache_efficiency = Unset
    /\ package_json = OriginalPackageJson
    /\ backup = NoFile
    /\ routes_appended = 0
    /\ tbuildx = FALSE
    /\ builds = <<>>
    /\ out = <<>>
    /\ exit_code = Running

TInit ==
    /\ tpc = "test1"
    /\ now = 0
    /\ start_time = Unset /\ end_time = Unset /\ duration = Unset
    /\ status = 0
    /\ clean_time = Unset /\ cached_time = Unset
    /\ source_change_time = Unset /\ deps_change_time = Unset
    /\ buildkit_time = Unset
    /\ cache_efficiency = Unset
    /\ package_json = OriginalPackageJson
    /\ backup = NoFile
    /\ routes_appended = 0
    /\ tbuildx \in BOOLEAN
    /\ builds = <<>>
    /\ out = <<Line("banner", 0)>>
    /\ exit_code = Running

\* Test 1: clean build
Test1 ==
    /\ tpc = "test1"
    /\ TFrame
    /\ \E d \in Durations, rc \in DockerRc :
         /\ time_build("Clean build", "--no-cache", d, rc)
         /\ out' = out \o <<Line("Test 1", 0)>>
                       \o time_build_out("Clean build", "--no-cache", d, rc)
    /\ ErrExit("test2")
    /\ clean_time' = IF status' = 0 THEN status' ELSE clean_time
    /\ UNCHANGED <<cached_time, source_change_time, deps_change_time,
                   buildkit_time, cache_efficiency, package_json, backup,
                   routes_appended, tbuildx>>

\* Test 2: rebuild with full cache
Test2 ==
    /\ tpc = "test2"
    /\ TFrame
    /\ \E d \in Durations, rc \in DockerRc :
         /\ time_build("Cached build", "", d, rc)
         /\ out' = out \o <<Line("Test 2", 0)>>
                       \o time_build_out("Cached build", "", d, rc)
    /\ ErrExit("test3")
    /\ cached_time' = IF status' = 0 THEN status' ELSE cached_time
    /\ UNCHANGED <<clean_time, source_change_time, deps_change_time,
                   buildkit_time, cache_efficiency, package_json, backup,
                   routes_appended, tbuildx>>

\* Test 3: append a comment to src/routes.ts and rebuild
Test3 ==
    /\ tpc = "test3"
    /\ TFrame
    /\ routes_appended' = routes_appended + 1
    /\ \E d \in Durations, rc \in DockerRc :
         /\ time_build("Source code change", "", d, rc)
         /\ out' = out \o <<Line("Test 3", 0)>>
                       \o time_build_out("Source code change", "", d, rc)
    /\ ErrExit("test4")
    /\ source_change_time' = IF status' = 0 THEN status' ELSE source_change_time
    /\ UNCHANGED <<clean_time, cached_time, deps_change_time, buildkit_time,
                   cache_efficiency, package_json, backup, tbuildx>>

\* Test 4, first half: back up package.json and append a line to it
Test4Modify ==
    /\ tpc = "test4"
    /\ TFrame
    /\ backup' = package_json
    /\ package_json' = ModifiedPackageJson
    /\ out' = Append(out, Line("Test 4", 0))
    /\ status' = 0
    /\ tpc' = "test4_build"
    /\ UNCHANGED <<now, start_time, end_time, duration, clean_time, cached_time,
                   source_change_time, deps_change_time, buildkit_time,
                   cache_efficiency, routes_appended, tbuildx, builds, exit_code>>

\* Test 4, second half: the dependency-change build
Test4Build ==
    /\ tpc = "test4_build"
    /\ TFrame
    /\ \E d \in Durations, rc \in DockerRc :
         /\ time_build("Dependency change", "", d, rc)
         /\ out' = out \o time_build_out("Dependency change", "", d, rc)
    /\ ErrExit("restore")
    /\ deps_change_time' = IF status' = 0 THEN status' ELSE deps_change_time
    /\ UNCHANGED <<clean_time, cached_time, source_change_time, buildkit_time,
                   cache_efficiency, package_json, backup, routes_appended,
                   tbuildx>>

\* mv package.json.backup package.json
Restore ==
    /\ tpc = "restore"
    /\ TFrame
    /\ package_json' = backup
    /\ backup' = NoFile
    /\ status' = 0
    /\ tpc' = "test5"
    /\ UNCHANGED <<now, start_time, end_time, duration, clean_time, cached_time,
                   source_change_time, deps_change_time, buildkit_time,
                   cache_efficiency, routes_appended, tbuildx, builds, out,
                   exit_code>>

\* Test 5: the BuildKit build, skipped when buildx is not available
Test5 ==
    /\ tpc = "test5"
    /\ TFrame
    /\ IF tbuildx
       THEN /\ \E d \in Durations, rc \in DockerRc :
                 /\ time_build("BuildKit build", "--builder=buildx", d, rc)
                 /\ out' = out \o <<Line("Test 5", 0)>>
                      \o time_build_out("BuildKit build", "--builder=buildx", d, rc)
            /\ ErrExit("summary")
            /\ buildkit_time' = IF status' = 0 THEN status' ELSE buildkit_time
       ELSE /\ out' = Append(out, Line("BuildKit not available", 0))
            /\ buildkit_time' = 0
            /\ status' = 0
            /\ tpc' = "summary"
            /\ UNCHANGED <<now, start_time, end_time, duration, builds, exit_code>>
    /\ UNCHANGED <<clean_time, cached_time, source_change_time, deps_change_time,
                   cache_efficiency, package_json, backup, routes_appended,
                   tbuildx>>

\* mutant: the percentage of the clean time the cached build took, instead
\* of the percentage saved
CacheEfficiencyOfCached(clean, warm) == TruncDiv(warm * 100, clean)

\* $(( (clean_time - cached_time) * 100 / clean_time ))
CacheEfficiency(clean, warm) == TruncDiv((clean - warm) * 100, clean)

\* the values $? can hold
Statuses == 0..(StatusModulus - 1)

\* the script at its results summary, with any recorded clean and cached
\* times
TAtSummary ==
    /\ tpc = "summary"
    /\ now = 0
    /\ start_time = 0 /\ end_time = 0 /\ duration = 0
    /\ status = 0
    /\ clean_time \in Statuses /\ cached_time \in Statuses
    /\ source_change_time = 0 /\ deps_change_time = 0
    /\ buildkit_time = 0
    /\ cache_efficiency = Unset
    /\ package_json = OriginalPackageJson
    /\ backup = NoFile
    /\ routes_appended = 1
    /\ tbuildx = FALSE
    /\ builds = <<>>
    /\ out = <<Line("banner", 0)>>
    /\ exit_code = Running

\* the results summary, the cache efficiency and the closing tips
Summary ==
    /\ tpc = "summary"
    /\ TFrame
    /\ cache_efficiency' =
         IF clean_time > 0
         THEN CacheEfficiency(clean_time, cached_time)
         ELSE cache_efficiency
    /\ out' = out
         \o <<Line("RESULTS SUMMARY", 0),
              Line("Clean build", clean_time),
              Line("Full cache", cached_time),
              Line("Source change", source_change_time),
              Line("Deps change", deps_change_time)>>
         \o (IF buildkit_time > 0 THEN <<Line("BuildKit", buildkit_time)>> ELSE <<>>)
         \o (IF clean_time > 0
             THEN <<Line("Cache efficiency", cache_efficiency')>> ELSE <<>>)
         \o <<Line("Cache testing complete", 0)>>
    /\ status' = 0
    /\ tpc' = "exited"
    /\ exit_code' = 0
    /\ UNCHANGED <<now, start_time, end_time, duration, clean_time, cached_time,
                   source_change_time, deps_change_time, buildkit_time,
                   package_json, backup, routes_appended, tbuildx, builds>>

TNext ==
    \/ Test1 \/ Test2 \/ Test3 \/ Test4Modify \/ Test4Build
    \/ Restore \/ Test5 \/ Summary

----------------------------------------------------------------------------
\* build-scenarios.sh

\* an external command: the program, its environment assignments, its
\* arguments and the exit status it ends with
Cmd(prog, env, args, rc) == [prog |-> prog, env |-> env, args |-> args, rc |-> rc]

BuildProgs == {"docker build", "docker buildx build"}

\* mutant: the registry-cache pattern is missing from the case statement
CaseTableNoRegistryCache ==
    [ n \in {"basic", "no-cache", "target", "buildkit", "multi-platform",
             "inline-cache", "clean", "all"} |->
        CASE n = "basic"          -> "basic_build"
          [] n = "no-cache"       -> "no_cache_build"
          [] n = "target"         -> "target_build"
          [] n = "buildkit"       -> "buildkit_build"
          [] n = "multi-platform" -> "multi_platform_build"
          [] n = "inline-cache"   -> "inline_cache_build"
          [] n = "clean"          -> "clean_up"
          [] n = "all"            -> "run_all" ]

\* the case patterns and the function each one calls
CaseTable ==
    [ n \in {"basic", "no-cache", "target", "buildkit", "multi-platform",
             "inline-cache", "registry-cache", "clean", "all"} |->
        CASE n = "basic"          -> "basic_build"
          [] n = "no-cache"       -> "no_cache_build"
          [] n = "target"         -> "target_build"
          [] n = "buildkit"       -> "buildkit_build"
          [] n = "multi-platform" -> "multi_platform_build"
          [] n = "inline-cache"   -> "inline_cache_build"
          [] n = "registry-cache" -> "registry_cache_build"
          [] n = "clean"          -> "clean_up"
          [] n = "all"            -> "run_all" ]

CaseNames == DOMAIN CaseTable

\* the calls of run_all, in order
RunAllSteps ==
    <<"clean_up", "basic_build", "no_cache_build", "target_build",
      "buildkit_build", "multi_platform_build", "inline_cache_build",
      "registry_cache_build">>

\* "${1:-}"
FirstArg(av) == IF Len(av) = 0 THEN "" ELSE av[1]

\* the argument lists tried
ArgWords ==
    {"basic", "no-cache", "target", "buildkit", "multi-platform",
     "inline-cache", "registry-cache", "clean", "all",
     "", "help", "Basic", "basic_build", "all "}
ArgLists == {<<>>} \cup { <<w>> : w \in ArgWords }
                  \cup { <<w, "basic">> : w \in ArgWords }

\* the plain build every fallback uses
PlainBuild(rc) == Cmd("docker build", {}, <<"-t", IMAGE_NAME, ".">>, rc)

BuildxProbe == Cmd("docker buildx version", {}, <<>>, IF sbuildx THEN 0 ELSE 1)

\* the script has not been started
SIdle ==
    /\ argv = <<>>
    /\ sbuildx = FALSE
    /\ spc = "idle"
    /\ callee = "none"
    /\ ra = 0
    /\ called = <<>>
    /\ cmds = <<>>
    /\ sout = <<>>
    /\ sexit = Running

SInit ==
    /\ argv \in ArgLists
    /\ sbuildx \in BOOLEAN
    /\ spc = "case"
    /\ callee = "none"
    /\ ra = 0
    /\ called = <<>>
    /\ cmds = <<>>
    /\ sout = <<"banner">>
    /\ sexit = Running

\* show_usage
show_usage_out == <<"Available scenarios:", "Usage">>

\* the case statement
Dispatch ==
    /\ spc = "case"
    /\ IF FirstArg(argv) \in CaseNames
       THEN /\ callee' = CaseTable[FirstArg(argv)]
            /\ spc' = "call"
            /\ UNCHANGED <<sout, sexit>>
       ELSE /\ sout' = sout \o show_usage_out
            /\ sexit' = 1
            /\ spc' = "exited"
            /\ UNCHANGED callee
    /\ UNCHANGED <<argv, sbuildx, ra, called, cmds>>
    /\ SFrame

\* mutant: without set -e a failing command does not end the script
FnReturnNoErrExit(issued, lines, rc) ==
    /\ called' = Append(called, callee)
    /\ cmds' = cmds \o [i \in DOMAIN issued |-> [by |-> callee, cmd |-> issued[i]]]
    /\ IF ra = 0
       THEN /\ sout' = sout \o lines
            /\ sexit' = rc /\ spc' = "exited"
            /\ UNCHANGED <<callee, ra>>
       ELSE /\ sout' = sout \o lines \o (IF ra >= 2 THEN <<"">> ELSE <<>>)
            /\ ra' = ra + 1
            /\ callee' = IF ra < Len(RunAllSteps)
                         THEN RunAllSteps[ra + 1] ELSE "run_all_end"
            /\ UNCHANGED <<sexit, spc>>
    /\ UNCHANGED <<argv, sbuildx>>
    /\ SFrame

\* a function ends with status rc after issuing `issued` and printing `lines`:
\* under set -e a non-zero status ends the script; otherwise control goes
\* back to the case statement (the script ends with status 0) or to run_all
FnReturn(issued, lines, rc) ==
    /\ called' = Append(called, callee)
    /\ cmds' = cmds \o [i \in DOMAIN issued |-> [by |-> callee, cmd |-> issued[i]]]
    /\ IF rc # 0
       THEN /\ sout' = sout \o lines
            /\ sexit' = rc /\ spc' = "exited"
            /\ UNCHANGED <<callee, ra>>
       ELSE IF ra = 0
       THEN /\ sout' = sout \o lines
            /\ sexit' = 0 /\ spc' = "exited"
            /\ UNCHANGED <<callee, ra>>
       ELSE /\ sout' = sout \o lines \o (IF ra >= 2 THEN <<"">> ELSE <<>>)
            /\ ra' = ra + 1
            /\ callee' = IF ra < Len(RunAllSteps)
                         THEN RunAllSteps[ra + 1] ELSE "run_all_end"
            /\ UNCHANGED <<sexit, spc>>
    /\ UNCHANGED <<argv, sbuildx>>
    /\ SFrame

Calling(f) == spc = "call" /\ callee = f

basic_build ==
    /\ Calling("basic_build")
    /\ \E rc \in DockerRc :
         FnReturn(<<PlainBuild(rc)>>, <<"Basic Build">>, rc)

no_cache_build ==
    /\ Calling("no_cache_build")
    /\ \E rc \in DockerRc :
         FnReturn(<<Cmd("docker build", {}, <<"--no-cache", "-t", IMAGE_NAME, ".">>, rc)>>,
                  <<"No Cache Build">>, rc)

target_build ==
    /\ Calling("target_build")
    /\ \E rc \in DockerRc :
         FnReturn(<<Cmd("docker build", {},
                        <<"--target", "deps", "-t", "test-build-cache-deps", ".">>, rc)>>,
                  <<"Target Build (deps stage only)">>, rc)

\* mutant: the else is missing, the standard build follows the BuildKit build
buildkit_build_no_else ==
    /\ Calling("buildkit_build")
    /\ \E rc \in DockerRc :
         IF sbuildx
         THEN FnReturn(<<BuildxProbe,
                         Cmd("docker build", {"DOCKER_BUILDKIT=1"},
                             <<"-t", IMAGE_NAME, ".">>, 0),
                         PlainBuild(rc)>>,
                       <<"BuildKit Build",
                         "BuildKit not available, using standard build">>, rc)
         ELSE FnReturn(<<BuildxProbe, PlainBuild(rc)>>,
                       <<"BuildKit Build",
                         "BuildKit not available, using standard build">>, rc)

buildkit_build ==
    /\ Calling("buildkit_build")
    /\ \E rc \in DockerRc :
         IF sbuildx
         THEN FnReturn(<<BuildxProbe,
                         Cmd("docker build", {"DOCKER_BUILDKIT=1"},
                             <<"-t", IMAGE_NAME, ".">>, rc)>>,
                       <<"BuildKit Build">>, rc)
         ELSE FnReturn(<<BuildxProbe, PlainBuild(rc)>>,
                       <<"BuildKit Build",
                         "BuildKit not available, using standard build">>, rc)

\* mutant: skipping the multi-platform build is reported as a failure
multi_platform_build_skip_fails ==
    /\ Calling("multi_platform_build")
    /\ IF sbuildx
       THEN \E rc \in DockerRc :
              FnReturn(<<BuildxProbe,
                         Cmd("docker buildx build", {},
                             <<"--platform", "linux/amd64,linux/arm64",
                               "-t", IMAGE_NAME, ".">>, rc)>>,
                       <<"Multi-platform Build">>, rc)
       ELSE FnReturn(<<BuildxProbe>>,
                     <<"Multi-platform Build",
                       "Buildx not available, skipping multi-platform build">>, 1)

multi_platform_build ==
    /\ Calling("multi_platform_build")
    /\ IF sbuildx
       THEN \E rc \in DockerRc :
              FnReturn(<<BuildxProbe,
                         Cmd("docker buildx build", {},
                             <<"--platform", "linux/amd64,linux/arm64",
                               "-t", IMAGE_NAME, ".">>, rc)>>,
                       <<"Multi-platform Build">>, rc)
       ELSE FnReturn(<<BuildxProbe>>,
                     <<"Multi-platform Build",
                       "Buildx not available, skipping multi-platform build">>, 0)

inline_cache_build ==
    /\ Calling("inline_cache_build")
    /\ \E rc \in DockerRc :
         IF sbuildx
         THEN FnReturn(<<BuildxProbe,
                         Cmd("docker buildx build", {},
                             <<"--cache-to", "type=inline",
                               "--cache-from", IMAGE_NAME,
                               "-t", IMAGE_NAME, "--load", ".">>, rc)>>,
                       <<"Inline Cache Build">>, rc)
         ELSE FnReturn(<<BuildxProbe, PlainBuild(rc)>>,
                       <<"Inline Cache Build",
                         "Buildx not available, using standard build">>, rc)

registry_cache_build ==
    /\ Calling("registry_cache_build")
    /\ \E rc \in DockerRc :
         IF sbuildx
         THEN FnReturn(<<BuildxProbe,
                         Cmd("docker buildx build", {},
                             <<"--cache-to", "type=local,dest=/tmp/docker-cache",
                               "--cache-from", "type=local,src=/tmp/docker-cache",
                               "-t", IMAGE_NAME, "--load", ".">>, rc)>>,
                       <<"Registry Cache Build (simulated)", "Note">>, rc)
         ELSE FnReturn(<<BuildxProbe, PlainBuild(rc)>>,
                       <<"Registry Cache Build (simulated)", "Note",
                         "Buildx not available, using standard build">>, rc)

\* mutant: the removals lack `|| true`, so under set -e the first one that
\* fails ends the function and the script
clean_up_no_or_true ==
    /\ Calling("clean_up")
    /\ \E r1, r2, r3, r4 \in DockerRc :
         LET steps == <<Cmd("docker rmi", {}, <<"-f", IMAGE_NAME>>, r1),
                        Cmd("docker rmi", {}, <<"-f", "test-build-cache-deps">>, r2),
                        Cmd("docker builder prune", {}, <<"-f">>, r3),
                        Cmd("rm", {}, <<"-rf", "/tmp/docker-cache">>, r4)>>
             failed == { i \in DOMAIN steps : steps[i].rc # 0 }
         IN  IF failed = {}
             THEN FnReturn(steps,
                           <<"Cleaning up", "Removing test images...",
                             "Pruning build cache...", "Removing temporary cache...",
                             "Cleanup complete">>, 0)
             ELSE LET k == CHOOSE i \in failed : \A j \in failed : i <= j
                  IN  FnReturn(SubSeq(steps, 1, k),
                               <<"Cleaning up", "Removing test images...">>,
                               steps[k].rc)

\* clean_up: every removal is followed by `|| true`
clean_up ==
    /\ Calling("clean_up")
    /\ \E r1, r2, r3, r4 \in DockerRc :
         FnReturn(<<Cmd("docker rmi", {}, <<"-f", IMAGE_NAME>>, r1),
                    Cmd("docker rmi", {}, <<"-f", "test-build-cache-deps">>, r2),
                    Cmd("docker builder prune", {}, <<"-f">>, r3),
                    Cmd("rm", {}, <<"-rf", "/tmp/docker-cache">>, r4)>>,
                  <<"Cleaning up", "Removing test images...",
                    "Pruning build cache...", "Removing temporary cache...",
                    "Cleanup complete">>, 0)

\* run_all, up to its first call
run_all ==
    /\ Calling("run_all")
    /\ sout' = sout \o <<"Running all build scenarios", "">>
    /\ ra' = 1
    /\ called' = Append(called, callee)
    /\ callee' = RunAllSteps[1]
    /\ UNCHANGED <<argv, sbuildx, spc, cmds, sexit>>
    /\ SFrame

\* run_all, after its last call
run_all_end ==
    /\ Calling("run_all_end")
    /\ sout' = Append(sout, "All scenarios completed")
    /\ sexit' = 0
    /\ spc' = "exited"
    /\ UNCHANGED <<argv, sbuildx, callee, ra, called, cmds>>
    /\ SFrame

SNext ==
    \/ Dispatch \/ basic_build \/ no_cache_build \/ target_build
    \/ buildkit_build \/ multi_platform_build \/ inline_cache_build
    \/ registry_cache_build \/ clean_up \/ run_all \/ run_all_end

----------------------------------------------------------------------------
\* The express application

\* requests handled in one run, and the clock's range
MaxRequests == 2
MaxTicks == 3
TickMs == 50

\* setTimeout(..., 100)
IoDelayMs == 100

\* A path is the sequence of its segments: "/" is <<>>, "/simulate/io" is
\* <<"simulate", "io">>.  A route pattern is a sequence of literal segments
\* and named parameters.
Lit(seg) == [kind |-> "lit", name |-> seg]
Param(name) == [kind |-> "param", name |-> name]
Route(method, pattern, handler) ==
    [method |-> method, pattern |-> pattern, handler |-> handler]

\* createRoutes(): the router's routes, in registration order
RouterRoutes ==
    << Route("GET", <<>>, "home"),
       Route("GET", <<Lit("info")>>, "info"),
       Route("GET", <<Lit("simulate"), Param("task")>>, "simulate") >>

\* index.ts: the router is mounted at '/', then /health is registered
AppRoutes == RouterRoutes \o << Route("GET", <<Lit("health")>>, "health") >>

\* a route matches a request of its method whose path has the pattern's
\* segments; a parameter matches any one segment
Matches(route, method, path) ==
    /\ route.method = method
    /\ Len(route.pattern) = Len(path)
    /\ \A i \in 1..Len(path) :
         \/ route.pattern[i].kind = "param"
         \/ route.pattern[i].name = path[i]

\* the handler of the first matching route; unmatched requests fall through
\* to the framework's 404
Resolve(method, path) ==
    LET hits == { i \in 1..Len(AppRoutes) : Matches(AppRoutes[i], method, path) }
    IN  IF hits = {} THEN "notfound"
        ELSE AppRoutes[CHOOSE i \in hits : \A j \in hits : i <= j].handler

Paths ==
    { <<>>, <<"health">>, <<"info">>, <<"simulate">>, <<"other">>,
      <<"simulate", "cpu">>, <<"simulate", "memory">>, <<"simulate", "io">>,
      <<"simulate", "disk">>, <<"simulate", "CPU">>, <<"simulate", "io", "x">> }

Requests ==
    { [method |-> "GET", path |-> p] : p \in Paths }
    \cup { [method |-> "POST", path |-> p] : p \in {<<>>, <<"simulate", "cpu">>} }

Response(st, body, at) == [status |-> st, body |-> body, at |-> at]

\* the links object of GET /
HomeLinks ==
    [health |-> <<"health">>, info |-> <<"info">>, simulate |-> <<"simulate">>]

SimulateBody(task, took, message) ==
    [kind |-> "simulate", task |-> task, duration |-> took, message |-> message]

\* mutant: the io case lacks its return and falls through to the final
\* res.json
simulate_sends_io_falls_through(task, took, at) ==
    CASE task \in {"cpu", "memory", "io"} ->
           << Response(200, SimulateBody(task, took, "simulation completed"), at) >>
      [] OTHER ->
           << Response(400, [kind |-> "error",
                             error |-> "Unknown task. Use: cpu, memory, or io"], at) >>

\* what the /simulate/:task handler sends before it returns, having worked
\* for `took` ms since startTime
simulate_sends(task, took, at) ==
    CASE task \in {"cpu", "memory"} ->
           << Response(200, SimulateBody(task, took, "simulation completed"), at) >>
      [] task = "io" -> << >>
      [] OTHER ->
           << Response(400, [kind |-> "error",
                             error |-> "Unknown task. Use: cpu, memory, or io"], at) >>

\* the delays of the timers the /simulate/:task handler sets
simulate_timeouts(task) == IF task = "io" THEN {IoDelayMs} ELSE {}

\* the time the handler's own work takes
WorkMs(task) == IF task \in {"cpu", "memory"} THEN {0, TickMs} ELSE {0}

HIdle ==
    /\ clock = 0
    /\ reqs = <<>>
    /\ resps = <<>>
    /\ timers = {}

HInit == HIdle

Arrives(r) ==
    /\ Len(reqs) < MaxRequests
    /\ reqs' = Append(reqs, [method |-> r.method, path |-> r.path, at |-> clock])

\* router.get('/')
home ==
    \E r \in Requests :
      /\ Resolve(r.method, r.path) = "home"
      /\ Arrives(r)
      /\ resps' = Append(resps,
            << Response(200, [kind |-> "home", links |-> HomeLinks], clock) >>)
      /\ UNCHANGED <<clock, timers>>
      /\ HFrame

\* router.get('/info')
info ==
    \E r \in Requests :
      /\ Resolve(r.method, r.path) = "info"
      /\ Arrives(r)
      /\ resps' = Append(resps, << Response(200, [kind |-> "info"], clock) >>)
      /\ UNCHANGED <<clock, timers>>
      /\ HFrame

\* router.get('/simulate/:task')
simulate ==
    \E r \in Requests :
      /\ Resolve(r.method, r.path) = "simulate"
      /\ Arrives(r)
      /\ LET task == r.path[2]
             id == Len(reqs) + 1
         IN  \E took \in WorkMs(task) :
               /\ clock + took <= MaxTicks * TickMs
               /\ clock' = clock + took
               /\ resps' = Append(resps, simulate_sends(task, took, clock'))
               /\ timers' = timers \cup
                    { [id |-> id, startTime |-> clock, due |-> clock' + d]
                        : d \in simulate_timeouts(task) }
      /\ HFrame

\* the setTimeout callback of the io task
simulate_io_timeout ==
    \E t \in timers :
      /\ t.due <= clock
      /\ resps' = [resps EXCEPT ![t.id] = Append(@,
            Response(200, SimulateBody("io", clock - t.startTime,
                                       "I/O simulation completed"), clock))]
      /\ timers' = timers \ {t}
      /\ UNCHANGED <<clock, reqs>>
      /\ HFrame

\* app.get('/health')
health ==
    \E r \in Requests :
      /\ Resolve(r.method, r.path) = "health"
      /\ Arrives(r)
      /\ resps' = Append(resps, << Response(200, [kind |-> "health"], clock) >>)
      /\ UNCHANGED <<clock, timers>>
      /\ HFrame

\* no route matches: the framework answers 404
notfound ==
    \E r \in Requests :
      /\ Resolve(r.method, r.path) = "notfound"
      /\ Arrives(r)
      /\ resps' = Append(resps, << Response(404, [kind |-> "notfound"], clock) >>)
      /\ UNCHANGED <<clock, timers>>
      /\ HFrame

\* time passes
Tick ==
    /\ clock < MaxTicks * TickMs
    /\ clock' = clock + TickMs
    /\ UNCHANGED <<reqs, resps, timers>>
    /\ HFrame

HNext ==
    \/ home \/ info \/ simulate \/ simulate_io_timeout \/ health \/ notfound
    \/ Tick

----------------------------------------------------------------------------
\* The image build: the Dockerfile's layers and the engine's cache rule

\* One record per instruction: its stage, its line in the Dockerfile, the
\* build-context paths it copies, and the stage it copies from ("" if none)
Layer(stage, line, instr, ctx, from) ==
    [stage |-> stage, line |-> line, instr |-> instr, ctx |-> ctx, from |-> from]

ToolBuilder1Stage ==
    << Layer("tool-builder-1", 6, "FROM", {}, ""),
       Layer("tool-builder-1", 7, "RUN", {}, ""),
       Layer("tool-builder-1", 8, "RUN", {}, ""),
       Layer("tool-builder-1", 13, "WORKDIR", {}, ""),
       Layer("tool-builder-1", 15, "RUN", {}, ""),
       Layer("tool-builder-1", 20, "RUN", {}, "") >>

ToolBuilder2Stage ==
    << Layer("tool-builder-2", 25, "FROM", {}, ""),
       Layer("tool-builder-2", 26, "RUN", {}, ""),
       Layer("tool-builder-2", 27, "RUN", {}, ""),
       Layer("tool-builder-2", 32, "WORKDIR", {}, ""),
       Layer("tool-builder-2", 34, "RUN", {}, ""),
       Layer("tool-builder-2", 39, "RUN", {}, "") >>

DepsStage ==
    << Layer("deps", 46, "FROM", {}, ""),
       Layer("deps", 47, "RUN", {}, ""),
       Layer("deps", 49, "WORKDIR", {}, ""),
       Layer("deps", 52, "COPY", {"package.json", "package-lock.json"}, ""),
       Layer("deps", 55, "RUN npm ci --omit=dev", {}, "") >>

\* mutant: the sources are copied together with the package files, before
\* npm ci
BuilderStageCopiesAllFirst ==
    << Layer("builder", 62, "FROM", {}, ""),
       Layer("builder", 63, "RUN", {}, ""),
       Layer("builder", 65, "WORKDIR", {}, ""),
       Layer("builder", 68, "COPY",
             {"package.json", "package-lock.json", "tsconfig.json", "src/"}, ""),
       Layer("builder", 71, "RUN npm ci", {}, ""),
       Layer("builder", 75, "COPY src/ ./src/", {"src/"}, ""),
       Layer("builder", 78, "RUN npm run build", {}, "") >>

BuilderStage ==
    << Layer("builder", 62, "FROM", {}, ""),
       Layer("builder", 63, "RUN", {}, ""),
       Layer("builder", 65, "WORKDIR", {}, ""),
       Layer("builder", 68, "COPY", {"package.json", "package-lock.json", "tsconfig.json"}, ""),
       Layer("builder", 71, "RUN npm ci", {}, ""),
       Layer("builder", 75, "COPY src/ ./src/", {"src/"}, ""),
       Layer("builder", 78, "RUN npm run build", {}, "") >>

FinalStage ==
    << Layer("final", 85, "FROM", {}, ""),
       Layer("final", 86, "RUN", {}, ""),
       Layer("final", 89, "RUN", {}, ""),
       Layer("final", 96, "RUN", {}, ""),
       Layer("final", 103, "WORKDIR", {}, ""),
       Layer("final", 106, "RUN", {}, ""),
       Layer("final", 107, "COPY --from", {}, "tool-builder-1"),
       Layer("final", 108, "COPY --from", {}, "tool-builder-2"),
       Layer("final", 111, "RUN", {}, ""),
       Layer("final", 117, "COPY --from", {}, "deps"),
       Layer("final", 120, "COPY --from", {}, "builder"),
       Layer("final", 121, "COPY --from", {}, "builder"),
       Layer("final", 124, "RUN", {}, ""),
       Layer("final", 128, "ENTRYPOINT", {}, ""),
       Layer("final", 131, "RUN", {}, ""),
       Layer("final", 132, "USER", {}, ""),
       Layer("final", 135, "EXPOSE", {}, ""),
       Layer("final", 138, "RUN", {}, ""),
       Layer("final", 139, "ENV", {}, ""),
       Layer("final", 140, "ENV", {}, ""),
       Layer("final", 143, "HEALTHCHECK", {}, ""),
       Layer("final", 146, "CMD", {}, "") >>

Dockerfile ==
    ToolBuilder1Stage \o ToolBuilder2Stage \o DepsStage
    \o BuilderStage \o FinalStage

Layers == 1..Len(Dockerfile)
LinesOf(ls) == { Dockerfile[i].line : i \in ls }
AllLines == LinesOf(Layers)

\* the files of the build context that can be edited between builds
ContextFiles ==
    {"package.json", "package-lock.json", "tsconfig.json", "src/", "README.md"}

\* the last layer of a stage, whose filesystem a COPY --from reads
LastOf(stage) ==
    CHOOSE i \in Layers :
      /\ Dockerfile[i].stage = stage
      /\ \A j \in Layers : Dockerfile[j].stage = stage => j <= i

\* The layer-cache rule: a layer is reused iff the cache holds it, the
\* context files it copies are unchanged, the stage it copies from was
\* reused whole, and every earlier layer of its stage is reused.
RECURSIVE Reused(_, _, _)
Reused(i, held, edited) ==
    /\ Dockerfile[i].line \in held
    /\ Dockerfile[i].ctx \cap edited = {}
    /\ Dockerfile[i].from # "" => Reused(LastOf(Dockerfile[i].from), held, edited)
    /\ (i > 1 /\ Dockerfile[i - 1].stage = Dockerfile[i].stage)
         => Reused(i - 1, held, edited)

LIdle ==
    /\ dirty = {}
    /\ cached = {}
    /\ rebuilt = {}
    /\ last = [built |-> FALSE, edited |-> {}, held |-> {}, nocache |-> FALSE]

LInit == LIdle

\* a file of the build context is edited, as Test 3 (src/routes.ts) and
\* Test 4 (package.json) of the cache test script do
EditFile ==
    \E f \in ContextFiles :
      /\ f \notin dirty
      /\ dirty' = dirty \cup {f}
      /\ UNCHANGED <<cached, rebuilt, last>>
      /\ LFrame

\* docker build -t test-build-cache .
Build ==
    /\ rebuilt' = LinesOf({ i \in Layers : ~Reused(i, cached, dirty) })
    /\ cached' = AllLines
    /\ last' = [built |-> TRUE, edited |-> dirty, held |-> cached, nocache |-> FALSE]
    /\ dirty' = {}
    /\ LFrame

\* docker build --no-cache -t test-build-cache .
BuildNoCache ==
    /\ rebuilt' = AllLines
    /\ cached' = AllLines
    /\ last' = [built |-> TRUE, edited |-> dirty, held |-> cached, nocache |-> TRUE]
    /\ dirty' = {}
    /\ LFrame

\* docker builder prune -f
Prune ==
    /\ cached # {}
    /\ cached' = {}
    /\ UNCHANGED <<dirty, rebuilt, last>>
    /\ LFrame

LNext == EditFile \/ Build \/ BuildNoCache \/ Prune

----------------------------------------------------------------------------
\* Specifications

InitCacheTest == TInit /\ SIdle /\ HIdle /\ LIdle
SpecCacheTest == InitCacheTest /\ [][TNext]_vars

\* the results summary of the cache test script, applied to every pair of
\* recorded clean and cached times
InitSummary == TAtSummary /\ SIdle /\ HIdle /\ LIdle
SpecSummary == InitSummary /\ [][Summary]_vars

InitScenarios == SInit /\ TIdle /\ HIdle /\ LIdle
SpecScenarios == InitScenarios /\ [][SNext]_vars

InitRoutes == HInit /\ TIdle /\ SIdle /\ LIdle
SpecRoutes == InitRoutes /\ [][HNext]_vars

InitLayers == LInit /\ TIdle /\ SIdle /\ HIdle
SpecLayers == InitLayers /\ [][LNext]_vars

----------------------------------------------------------------------------
\* Properties of the cache test script

Exited == tpc = "exited"
AllBuildsSucceeded == \A i \in DOMAIN builds : builds[i].rc = 0
BuildTypes == [i \in DOMAIN builds |-> builds[i].type]
Printed(tag) == \E i \in DOMAIN out : out[i].line = tag
HasBuild(type) == \E i \in DOMAIN builds : builds[i].type = type
\* the duration end_time - start_time of the build of the given type
Measured(type) == builds[CHOOSE i \in DOMAIN builds : builds[i].type = type].took

\* C1: a run in which every docker build succeeds has executed the clean,
\* cached, source-change and dependency-change builds in that order and has
\* printed the results summary and the cache efficiency, whatever the builds'
\* durations.
C1_SuccessfulRunCompletes ==
    (Exited /\ AllBuildsSucceeded) =>
        /\ Len(builds) >= 4
        /\ SubSeq(BuildTypes, 1, 4) =
             <<"Clean build", "Cached build", "Source code change",
               "Dependency change">>
        /\ builds[1].args = "--no-cache"
        /\ Printed("RESULTS SUMMARY")
        /\ Printed("Cache efficiency")

\* C2: every time the caller has recorded from $? equals the measured
\* duration of the corresponding build.
C2_RecordedEqualsMeasured ==
    /\ clean_time # Unset => clean_time = Measured("Clean build")
    /\ cached_time # Unset => cached_time = Measured("Cached build")
    /\ source_change_time # Unset
         => source_change_time = Measured("Source code change")
    /\ deps_change_time # Unset
         => deps_change_time = Measured("Dependency change")
    /\ (buildkit_time # Unset /\ HasBuild("BuildKit build"))
         => buildkit_time = Measured("BuildKit build")

\* C9: however the script ends after Test 4 has appended to package.json,
\* package.json has its original content again and package.json.backup is
\* gone.
C9_PackageJsonRestored ==
    (Exited /\ Printed("Test 4")) =>
        /\ package_json = OriginalPackageJson
        /\ backup = NoFile

----------------------------------------------------------------------------
\* Properties of build-scenarios.sh

ScriptExited == spc = "exited"
ArgMissing == Len(argv) = 0
UsagePrinted == \E i \in DOMAIN sout : sout[i] = "Usage"
CompletedPrinted == \E i \in DOMAIN sout : sout[i] = "All scenarios completed"
IsBuild(c) == c.prog \in {"docker build", "docker buildx build"}
\* the build invocations issued by function f
BuildsBy(f) == SelectSeq(cmds, LAMBDA e : e.by = f /\ IsBuild(e.cmd))
AllBuilds == SelectSeq(cmds, LAMBDA e : IsBuild(e.cmd))
HasReturned(f) == \E i \in DOMAIN called : called[i] = f
IsPrefix(a, b) == Len(a) <= Len(b) /\ SubSeq(b, 1, Len(a)) = a

ScenarioFunctions ==
    {"basic_build", "no_cache_build", "target_build", "buildkit_build",
     "multi_platform_build", "inline_cache_build", "registry_cache_build"}

\* a build scenario has been run on its own and the script has ended
RanAlone == ScriptExited /\ ra = 0 /\ callee \in ScenarioFunctions

\* C3 as stated: each build scenario run on its own issues exactly one
\* container-build invocation, whether or not buildx is available.
C3_ExactlyOneBuild == RanAlone => Len(AllBuilds) = 1

\* C3 amended: each build scenario run on its own issues exactly one
\* container-build invocation, except multi-platform without buildx, which
\* issues none.
C3_OneBuildUnlessSkipped ==
    RanAlone =>
        Len(AllBuilds) =
            IF callee = "multi_platform_build" /\ ~sbuildx THEN 0 ELSE 1

C3_Witness == RanAlone /\ callee = "buildkit_build" /\ sbuildx /\ Len(AllBuilds) = 1

NineNames ==
    {"basic", "no-cache", "target", "buildkit", "multi-platform",
     "inline-cache", "registry-cache", "clean", "all"}

FunctionNamed(n) ==
    CASE n = "basic"          -> "basic_build"
      [] n = "no-cache"       -> "no_cache_build"
      [] n = "target"         -> "target_build"
      [] n = "buildkit"       -> "buildkit_build"
      [] n = "multi-platform" -> "multi_platform_build"
      [] n = "inline-cache"   -> "inline_cache_build"
      [] n = "registry-cache" -> "registry_cache_build"
      [] n = "clean"          -> "clean_up"
      [] n = "all"            -> "run_all"

\* C4: the usage is printed, with exit status 1 and no command issued, iff
\* the first argument is missing or is none of the nine names; for each of
\* the nine names exactly the function of that name is run.
C4_UsageIffUnknownScenario ==
    spc \in {"call", "exited"} =>
        /\ UsagePrinted <=> (ArgMissing \/ argv[1] \notin NineNames)
        /\ UsagePrinted =>
             /\ ScriptExited /\ sexit = 1
             /\ cmds = <<>> /\ called = <<>>
        /\ (~ArgMissing /\ argv[1] \in NineNames) =>
             /\ called = <<>> => callee = FunctionNamed(argv[1])
             /\ called # <<>> => called[1] = FunctionNamed(argv[1])
             /\ (ScriptExited /\ argv[1] # "all")
                  => called = <<FunctionNamed(argv[1])>>

C4_Witness == ScriptExited /\ UsagePrinted /\ argv = <<"help">>

AllOrder ==
    <<"run_all", "clean_up", "basic_build", "no_cache_build", "target_build",
      "buildkit_build", "multi_platform_build", "inline_cache_build",
      "registry_cache_build">>

PosInAll(f) == CHOOSE i \in DOMAIN AllOrder : AllOrder[i] = f

RunsAll == ~ArgMissing /\ argv[1] = "all"

\* C5: 'all' runs clean_up and then the seven builds in order; a build step
\* that exits non-zero is the last thing run and the script exits non-zero;
\* 'All scenarios completed' is printed only after every step succeeded.
C5_AllStopsAtFirstFailure ==
    RunsAll =>
        /\ IsPrefix(called, AllOrder)
        /\ \A i, j \in DOMAIN cmds :
             i < j => PosInAll(cmds[i].by) <= PosInAll(cmds[j].by)
        /\ \A i \in DOMAIN cmds :
             (IsBuild(cmds[i].cmd) /\ cmds[i].cmd.rc # 0) =>
                 /\ i = Len(cmds)
                 /\ called[Len(called)] = cmds[i].by
                 /\ ScriptExited /\ sexit # 0
                 /\ ~CompletedPrinted
        /\ CompletedPrinted =>
             /\ called = AllOrder
             /\ \A i \in DOMAIN cmds : IsBuild(cmds[i].cmd) => cmds[i].cmd.rc = 0
             /\ ScriptExited /\ sexit = 0

C5_Witness ==
    /\ RunsAll /\ ScriptExited /\ sexit # 0
    /\ called = SubSeq(AllOrder, 1, 5)

IsFallback(c) ==
    c.prog = "docker build" /\ c.env = {} /\ c.args = <<"-t", "test-build-cache", ".">>

IsSpecific(f, c) ==
    CASE f = "buildkit_build" ->
           /\ c.prog = "docker build" /\ c.env = {"DOCKER_BUILDKIT=1"}
           /\ c.args = <<"-t", "test-build-cache", ".">>
      [] f = "multi_platform_build" ->
           /\ c.prog = "docker buildx build" /\ c.env = {}
           /\ c.args = <<"--platform", "linux/amd64,linux/arm64",
                         "-t", "test-build-cache", ".">>
      [] f = "inline_cache_build" ->
           /\ c.prog = "docker buildx build" /\ c.env = {}
           /\ c.args = <<"--cache-to", "type=inline",
                         "--cache-from", "test-build-cache",
                         "-t", "test-build-cache", "--load", ".">>
      [] f = "registry_cache_build" ->
           /\ c.prog = "docker buildx build" /\ c.env = {}
           /\ c.args = <<"--cache-to", "type=local,dest=/tmp/docker-cache",
                         "--cache-from", "type=local,src=/tmp/docker-cache",
                         "-t", "test-build-cache", "--load", ".">>

\* C10: without buildx the buildkit, inline-cache and registry-cache
\* scenarios issue the plain build and multi-platform issues no build and
\* exits 0; with buildx each of the four issues its own invocation and never
\* the plain one.
C10_BuildxFallback ==
    \A f \in {"buildkit_build", "multi_platform_build", "inline_cache_build",
              "registry_cache_build"} :
      HasReturned(f) =>
        IF sbuildx
        THEN /\ Len(BuildsBy(f)) = 1
             /\ IsSpecific(f, BuildsBy(f)[1].cmd)
             /\ ~IsFallback(BuildsBy(f)[1].cmd)
        ELSE IF f = "multi_platform_build"
        THEN /\ BuildsBy(f) = <<>>
             /\ (ScriptExited /\ ra = 0) => sexit = 0
        ELSE /\ Len(BuildsBy(f)) = 1
             /\ IsFallback(BuildsBy(f)[1].cmd)

C10_Witness ==
    /\ RanAlone /\ callee = "multi_platform_build" /\ ~sbuildx
    /\ HasReturned("multi_platform_build") /\ sexit = 0

----------------------------------------------------------------------------
\* Properties of the express application

IsSimulateRequest(r) ==
    r.method = "GET" /\ Len(r.path) = 2 /\ r.path[1] = "simulate"
TimerPending(id) == \E t \in timers : t.id = id

\* C6: a GET /simulate/:task request gets exactly one response: for cpu and
\* memory a 200 body naming the task, sent by the handler itself; for io a
\* single 200 body sent by the timer, 100 ms or more after the request and
\* never twice; for any other task a single 400 error body.
C6_SimulateRespondsOnce ==
    \A id \in DOMAIN reqs :
      IsSimulateRequest(reqs[id]) =>
        LET task == reqs[id].path[2]
            sent == resps[id]
        IN  CASE task \in {"cpu", "memory"} ->
                   /\ Len(sent) = 1 /\ ~TimerPending(id)
                   /\ sent[1].status = 200
                   /\ sent[1].body.kind = "simulate"
                   /\ sent[1].body.task = task
              [] task = "io" ->
                   /\ Len(sent) <= 1
                   /\ (Len(sent) = 0) <=> TimerPending(id)
                   /\ Len(sent) = 1 =>
                        /\ sent[1].status = 200
                        /\ sent[1].body.kind = "simulate"
                        /\ sent[1].body.task = "io"
                        /\ sent[1].at >= reqs[id].at + 100
              [] OTHER ->
                   /\ Len(sent) = 1 /\ ~TimerPending(id)
                   /\ sent[1].status = 400
                   /\ sent[1].body.kind = "error"

C6_Witness ==
    \E id \in DOMAIN reqs :
      /\ reqs[id].method = "GET" /\ reqs[id].path = <<"simulate", "io">>
      /\ Len(resps[id]) = 1 /\ ~TimerPending(id)

\* C7: every path in the links object of a GET / response is a path some
\* GET route of the application matches.
C7_LinksHaveRoutes ==
    \A id \in DOMAIN resps : \A k \in DOMAIN resps[id] :
      resps[id][k].body.kind = "home" =>
        \A name \in DOMAIN resps[id][k].body.links :
          Resolve("GET", resps[id][k].body.links[name]) # "notfound"

----------------------------------------------------------------------------
\* Properties of the image build

\* the last build ran with every layer in the cache after only files under
\* src/ had been edited
RebuiltAfterSourceChange ==
    /\ last.built /\ ~last.nocache
    /\ last.held = AllLines
    /\ last.edited = {"src/"}

StageLines(stage) == { Dockerfile[i].line : i \in { j \in Layers : Dockerfile[j].stage = stage } }

\* C8: a rebuild after a change under src/ only reuses every layer of
\* tool-builder-1, tool-builder-2 and deps and the builder layers up to
\* npm ci; exactly the builder layers from COPY src/ (line 75) on and the
\* final-stage layers from COPY --from=builder (line 120) on are rebuilt.
C8_SourceChangeRebuildsTail ==
    RebuiltAfterSourceChange =>
        /\ rebuilt \cap (StageLines("tool-builder-1") \cup
                         StageLines("tool-builder-2") \cup
                         StageLines("deps")) = {}
        /\ rebuilt \cap StageLines("builder") = {75, 78}
        /\ rebuilt \cap StageLines("final") =
             {120, 121, 124, 128, 131, 132, 135, 138, 139, 140, 143, 146}
        /\ rebuilt \subseteq AllLines

C8_Witness == RebuiltAfterSourceChange /\ 75 \in rebuilt /\ 120 \in rebuilt

----------------------------------------------------------------------------
\* Properties of clean_up

\* the commands clean_up has issued, without their exit statuses
CleanUpIssued ==
    LET mine == SelectSeq(cmds, LAMBDA e : e.by = "clean_up")
    IN  [i \in DOMAIN mine |-> <<mine[i].cmd.prog, mine[i].cmd.args>>]

CleanUpFailures ==
    { i \in DOMAIN cmds : cmds[i].by = "clean_up" /\ cmds[i].cmd.rc # 0 }

\* C11: whichever removals of clean_up fail, all of them are attempted,
\* 'Cleanup complete' is printed and the function returns 0: run on its own
\* the script exits 0, inside run_all the next step (basic_build) is called.
C11_CleanUpNeverAborts ==
    HasReturned("clean_up") =>
        /\ CleanUpIssued =
             << <<"docker rmi", <<"-f", "test-build-cache">>>>,
                <<"docker rmi", <<"-f", "test-build-cache-deps">>>>,
                <<"docker builder prune", <<"-f">>>>,
                <<"rm", <<"-rf", "/tmp/docker-cache">>>> >>
        /\ \E i \in DOMAIN sout : sout[i] = "Cleanup complete"
        /\ called[Len(called)] = "clean_up" =>
             IF ra = 0
             THEN ScriptExited /\ sexit = 0
             ELSE spc = "call" /\ callee = "basic_build" /\ sexit = Running

C11_Witness ==
    /\ HasReturned("clean_up")
    /\ called[Len(called)] = "clean_up"
    /\ Cardinality(CleanUpFailures) = 4

----------------------------------------------------------------------------
\* Properties of the results summary

SummaryPrinted == Printed("RESULTS SUMMARY")
EfficiencyPrinted == Printed("Cache efficiency")
EfficiencyShown ==
    out[CHOOSE i \in DOMAIN out : out[i].line = "Cache efficiency"].val

\* v is n / d with the quotient truncated toward zero, for d > 0
IsTruncatedQuotient(v, n, d) ==
    IF n >= 0
    THEN v * d <= n /\ n < (v + 1) * d
    ELSE v * d >= n /\ n > (v - 1) * d

\* the efficiency line is printed exactly when clean_time > 0, and shows
\* (clean_time - cached_time) * 100 / clean_time
EfficiencyLineAsComputed ==
    /\ EfficiencyPrinted <=> clean_time > 0
    /\ EfficiencyPrinted =>
         IsTruncatedQuotient(EfficiencyShown,
                             (clean_time - cached_time) * 100, clean_time)

====
